---- MODULE Spec2Model ----
(***************************************************************************)
(* amqp10-rpc: the client's correlation and timeout engine (RpcClient)     *)
(* and the server's dispatch pipeline (RpcServer).                         *)
(*                                                                         *)
(* Spec      : one RpcClient, its sender, its response receiver and the    *)
(*             timers it arms; the broker is the environment.              *)
(* LiveSpec  : Spec with the event loop's fairness (queued promise         *)
(*             callbacks run, armed timers fire).                          *)
(* ServerSpec: one RpcServer dispatching the messages its receiver emits,  *)
(*             one message at a time; the senders are the environment.     *)
(* BindSpec  : the bind calls of the embedder on a new RpcServer.          *)
(* ParamsSpec: the parameters of the requests for one bound method.        *)
(* EnvelopeSpec: one invocation of call or notify and the message it gives *)
(*             to the sender.                                              *)
(* BatchSpec : the client when the responses are those of batch requests.  *)
(* OptionsSpec: clients created with any timeout and interceptor options.  *)
(***************************************************************************)
EXTENDS Integers, Sequences, FiniteSets, TLC

\* ------------------------------------------------------------------ bounds
MaxCalls == 2                 \* calls issued on the client

\* --------------------------------------------------------------- JS values
Undefined == "undefined"
Null == "null"

\* errors.ErrorCode
ParseError == -32700
InvalidRequest == -32600
MethodNotFound == -32601
InvalidParams == -32602
InternalError == -32603
CustomCode == 1               \* a code outside errors.ErrorCode

\* ================================================================ RpcClient
Calls == 1..MaxCalls

\* values uuid.v4().replace(/-/g, '') can return, and one more that the
\* client never issued
Ids == {"id" \o ToString(i) : i \in 1..(MaxCalls + 1)}

Values == {"v1", "v2"}
ErrorCodes == {MethodNotFound, CustomCode}

\* message.body of a message on the response receiver
ResultBodies == [kind : {"result"}, result : Values]
ErrorBodies == [kind : {"error"}, code : ErrorCodes, message : {"msg"}, data : {"data"}]
OtherBodies == {[kind |-> "other"]}
Bodies == ResultBodies \cup ErrorBodies \cup OtherBodies

\* messages the response receiver can emit
Messages == [correlationId : Ids \cup {Undefined, Null}, body : Bodies]

\* errors the sender and the response link can report
SendErrors == {"sendError"}
LinkErrors == {"linkError"}

VARIABLES
  pc,          \* per call: where its _sendRequest chain stands
  corr,        \* per call: the correlator call() generated
  requests,    \* RpcClient._requests: correlator -> { resolve, reject, timeoutId }
  timers,      \* armed timers (setTimeout not yet fired nor cleared), by call
  completion,  \* per call: the promise _sendRequest returned and the
               \* resolve/reject invocations made on it
  sendErr,     \* per call: the error its send was rejected with
  log,         \* the last entry given to logger.error
  thrown       \* the last exception a receiver listener let escape

\* RpcServer and the message it is dispatching
VARIABLES
  options,     \* the options the server was constructed with
  message,     \* the message _processMessage was last called with
  spc,         \* where the dispatch of that message stands
  chain,       \* the promise the dispatch is waiting on, or its settled value
  events       \* what the dispatch of that message has done so far, in order:
               \* logger, interceptor and handler calls, dispositions,
               \* createSender and send

\* the registry of a server and its bind calls
VARIABLES
  methodHandlers,  \* RpcServer._methodHandlers: method name -> method definition
  raised,          \* what the last bind call raised
  detail           \* the argument that error was constructed with

\* the parameters of one request for one bound method
VARIABLES
  parameters,  \* methodHandler.parameters: the names bind extracted
  supplied,    \* request.params
  named,       \* the params given to the validator
  args         \* the arguments the handler is applied to

\* the options of a client and the requests it hands to its sender
VARIABLES
  copts,       \* the options createRpcClient was called with
  envelope,    \* the message call or notify last gave to sender.send
  refused      \* what the last call of notify raised

cvars == <<pc, corr, requests, timers, completion, sendErr, log, thrown>>
svars == <<options, message, spc, chain, events>>
bvars == <<methodHandlers, raised, detail>>
pvars == <<parameters, supplied, named, args>>
evars == <<copts, envelope, refused>>
vars == <<cvars, svars, bvars, pvars, evars>>

\* no request has been given to _processRequest
NoParams ==
  /\ parameters = <<>>
  /\ supplied = [kind |-> "absent"]
  /\ named = <<>>
  /\ args = <<>>

\* options.timeout: absent, or a number of milliseconds
NoTimeout == [set |-> FALSE, ms |-> 0]

\* createRpcClient(address) without options, and no call or notify made
NoEnvelope ==
  /\ copts = [timeout |-> NoTimeout, interceptor |-> FALSE]
  /\ envelope = [sent |-> FALSE]
  /\ refused = "none"

NoLog == [msg |-> "none"]
NoValue == [t |-> "none"]
NoVia == [src |-> "none"]
Pending == [count |-> 0, kind |-> "pending", value |-> NoValue, via |-> NoVia]

\* errors.RequestTimeoutError
RequestTimeoutError == [t |-> "error", type |-> "RequestTimeoutError"]

\* resolve(value) / reject(value) on a completion: the first invocation
\* settles the promise, every invocation is counted
Settle(c, kind, value, via) ==
  IF c.count = 0
    THEN [count |-> 1, kind |-> kind, value |-> value, via |-> via]
    ELSE [c EXCEPT !.count = c.count + 1]

\* errors.wrapProtocolError
ErrorTypeOf(code) ==
  CASE code = ParseError -> "ParseError"
    [] code = InvalidRequest -> "InvalidRequestError"
    [] code = MethodNotFound -> "MethodNotFoundError"
    [] code = InvalidParams -> "InvalidParamsError"
    [] code = InternalError -> "InternalError"
    [] OTHER -> "ProtocolError"

\* the code the constructor chosen by wrapProtocolError stores: the
\* subtypes pass their own code, the base type is called without arguments
ConstructedCode(code) ==
  IF ErrorTypeOf(code) = "ProtocolError" THEN Undefined ELSE ToString(code)

wrapProtocolError(err) ==
  [t |-> "error", type |-> ErrorTypeOf(err.code), code |-> ConstructedCode(err.code),
   message |-> err.message, data |-> err.data]

ClientInit ==
  /\ pc = [k \in Calls |-> "none"]
  /\ corr = [k \in Calls |-> Undefined]
  /\ requests = <<>>
  /\ timers = {}
  /\ completion = [k \in Calls |-> Pending]
  /\ sendErr = [k \in Calls |-> Undefined]
  /\ log = NoLog
  /\ thrown = "none"

\* correlators already generated
UsedIds == {corr[k] : k \in {j \in Calls : pc[j] # "none"}}

\* uuid.v4(): a value not generated before.  The client treats correlators
\* as opaque keys, so the behaviours are the same up to a renaming of the
\* values and the model takes the next value of Ids.
uuid_v4 == {"id" \o ToString(Cardinality(UsedIds) + 1)}

\* Call, installing the pending entry before the send completes
Call_InstallEarly(k, id) ==
  /\ pc[k] = "none"
  /\ \A j \in Calls : j < k => pc[j] # "none"
  /\ id \in uuid_v4
  /\ corr' = [corr EXCEPT ![k] = id]
  /\ pc' = [pc EXCEPT ![k] = "sending"]
  /\ requests' = [c \in DOMAIN requests \cup {id} |->
                    IF c = id THEN [call |-> k, timeoutId |-> k] ELSE requests[c]]
  /\ UNCHANGED <<timers, completion, sendErr, log, thrown, svars, bvars, pvars, evars>>

\* RpcClient.prototype.call up to sender.send(request) in _sendRequest
Call(k, id) ==
  /\ pc[k] = "none"
  /\ \A j \in Calls : j < k => pc[j] # "none"
  /\ id \in uuid_v4
  /\ corr' = [corr EXCEPT ![k] = id]
  /\ pc' = [pc EXCEPT ![k] = "sending"]
  /\ UNCHANGED <<requests, timers, completion, sendErr, log, thrown, svars, bvars, pvars, evars>>

\* the promise of sender.send is fulfilled
SendSucceeds(k) ==
  /\ pc[k] = "sending"
  /\ pc' = [pc EXCEPT ![k] = "sendok"]
  /\ UNCHANGED <<corr, requests, timers, completion, sendErr, log, thrown, svars, bvars, pvars, evars>>

\* the promise of sender.send is rejected
SendFails(k, err) ==
  /\ pc[k] = "sending"
  /\ pc' = [pc EXCEPT ![k] = "sendfail"]
  /\ sendErr' = [sendErr EXCEPT ![k] = err]
  /\ UNCHANGED <<corr, requests, timers, completion, log, thrown, svars, bvars, pvars, evars>>

\* Install, arming no timer
Install_NoTimer(k) ==
  /\ pc[k] = "sendok"
  /\ pc' = [pc EXCEPT ![k] = "installed"]
  /\ requests' = [c \in DOMAIN requests \cup {corr[k]} |->
                    IF c = corr[k] THEN [call |-> k, timeoutId |-> k] ELSE requests[c]]
  /\ UNCHANGED <<corr, timers, completion, sendErr, log, thrown, svars, bvars, pvars, evars>>

\* _sendRequest: the .then callback of sender.send
Install(k) ==
  /\ pc[k] = "sendok"
  /\ pc' = [pc EXCEPT ![k] = "installed"]
  /\ requests' = [c \in DOMAIN requests \cup {corr[k]} |->
                    IF c = corr[k] THEN [call |-> k, timeoutId |-> k] ELSE requests[c]]
  /\ timers' = timers \cup {k}
  /\ UNCHANGED <<corr, completion, sendErr, log, thrown, svars, bvars, pvars, evars>>

\* CatchSend, swallowing the error
CatchSend_Swallow(k) ==
  /\ pc[k] = "sendfail"
  /\ pc' = [pc EXCEPT ![k] = "rejected"]
  /\ UNCHANGED <<corr, requests, timers, completion, sendErr, log, thrown, svars, bvars, pvars, evars>>

\* _sendRequest: the .catch callback of sender.send
CatchSend(k) ==
  /\ pc[k] = "sendfail"
  /\ pc' = [pc EXCEPT ![k] = "rejected"]
  /\ completion' = [completion EXCEPT
                      ![k] = Settle(@, "rejected", [t |-> "error", type |-> sendErr[k]],
                                    [src |-> "send"])]
  /\ UNCHANGED <<corr, requests, timers, sendErr, log, thrown, svars, bvars, pvars, evars>>

\* delete self._requests[c]
Delete(table, c) == [d \in DOMAIN table \ {c} |-> table[d]]

\* TimerFires, leaving the entry in the table
TimerFires_NoDelete(k) ==
  /\ k \in timers
  /\ timers' = timers \ {k}
  /\ IF corr[k] \in DOMAIN requests
       THEN completion' = [completion EXCEPT
                             ![requests[corr[k]].call] =
                                Settle(@, "rejected", RequestTimeoutError, [src |-> "timer"])]
       ELSE UNCHANGED completion
  /\ UNCHANGED <<pc, corr, requests, sendErr, log, thrown, svars, bvars, pvars, evars>>

\* _sendRequest: the setTimeout callback of call k
TimerFires(k) ==
  /\ k \in timers
  /\ timers' = timers \ {k}
  /\ IF corr[k] \in DOMAIN requests
       THEN /\ completion' = [completion EXCEPT
                                ![requests[corr[k]].call] =
                                   Settle(@, "rejected", RequestTimeoutError, [src |-> "timer"])]
            /\ requests' = Delete(requests, corr[k])
       ELSE UNCHANGED <<completion, requests>>
  /\ UNCHANGED <<pc, corr, sendErr, log, thrown, svars, bvars, pvars, evars>>

\* _processMessage: what an item of a batch response becomes
ItemValue(r) ==
  IF "result" \in r.own THEN [t |-> "value", v |-> r.result]
  ELSE IF "error" \in r.own THEN [t |-> "error", v |-> r.error]
  ELSE [t |-> "undefined"]

\* BodyOutcome, rejecting a batch response that holds an error
BodyOutcome_RejectOnError(m) ==
  CASE m.body.kind = "batch" ->
         IF \E i \in DOMAIN m.body.items : "result" \notin m.body.items[i].own
           THEN [kind |-> "rejected", value |-> [t |-> "message", m |-> m]]
           ELSE [kind |-> "resolved",
                 value |-> [t |-> "list",
                            items |-> [i \in DOMAIN m.body.items |->
                                         ItemValue(m.body.items[i])]]]
    [] m.body.kind = "result" ->
         [kind |-> "resolved", value |-> [t |-> "value", v |-> m.body.result]]
    [] m.body.kind = "error" ->
         [kind |-> "rejected", value |-> wrapProtocolError(m.body)]
    [] OTHER ->
         [kind |-> "rejected", value |-> [t |-> "message", m |-> m]]

\* RpcClient.prototype._processMessage: what the body settles the call with
BodyOutcome(m) ==
  CASE m.body.kind = "batch" ->
         [kind |-> "resolved",
          value |-> [t |-> "list",
                     items |-> [i \in DOMAIN m.body.items |->
                                  ItemValue(m.body.items[i])]]]
    [] m.body.kind = "result" ->
         [kind |-> "resolved", value |-> [t |-> "value", v |-> m.body.result]]
    [] m.body.kind = "error" ->
         [kind |-> "rejected", value |-> wrapProtocolError(m.body)]
    [] OTHER ->
         [kind |-> "rejected", value |-> [t |-> "message", m |-> m]]

\* ProcessMessage, leaving the entry in the table
ProcessMessage_NoDelete(m) ==
  LET correlationId == m.correlationId IN
  IF correlationId = Undefined \/ correlationId = Null
    THEN /\ log' = [msg |-> "message lacks correlation-id"]
         /\ UNCHANGED <<pc, corr, requests, timers, completion, sendErr, thrown, svars, bvars, pvars, evars>>
  ELSE IF correlationId \notin DOMAIN requests
    THEN /\ log' = [msg |-> "invalid correlation-id: ", arg |-> correlationId]
         /\ UNCHANGED <<pc, corr, requests, timers, completion, sendErr, thrown, svars, bvars, pvars, evars>>
  ELSE LET request == requests[correlationId] IN
         /\ timers' = timers \ {request.timeoutId}
         /\ completion' = [completion EXCEPT
                             ![request.call] =
                                Settle(@, BodyOutcome(m).kind, BodyOutcome(m).value,
                                       [src |-> "message", m |-> m])]
         /\ UNCHANGED <<pc, corr, requests, sendErr, log, thrown, svars, bvars, pvars, evars>>

\* the entry of the call issued first among those in the table
Oldest(table) ==
  CHOOSE c \in DOMAIN table : \A d \in DOMAIN table : table[c].call <= table[d].call

\* ProcessMessage, giving a response with an unknown correlator to the
\* oldest pending call
ProcessMessage_Fallback(m) ==
  LET correlationId == m.correlationId IN
  IF correlationId = Undefined \/ correlationId = Null
    THEN /\ log' = [msg |-> "message lacks correlation-id"]
         /\ UNCHANGED <<pc, corr, requests, timers, completion, sendErr, thrown, svars, bvars, pvars, evars>>
  ELSE IF DOMAIN requests = {}
    THEN /\ log' = [msg |-> "invalid correlation-id: ", arg |-> correlationId]
         /\ UNCHANGED <<pc, corr, requests, timers, completion, sendErr, thrown, svars, bvars, pvars, evars>>
  ELSE LET key == IF correlationId \in DOMAIN requests
                    THEN correlationId ELSE Oldest(requests)
           request == requests[key] IN
         /\ timers' = timers \ {request.timeoutId}
         /\ completion' = [completion EXCEPT
                             ![request.call] =
                                Settle(@, BodyOutcome(m).kind, BodyOutcome(m).value,
                                       [src |-> "message", m |-> m])]
         /\ requests' = Delete(requests, key)
         /\ UNCHANGED <<pc, corr, sendErr, log, thrown, svars, bvars, pvars, evars>>

\* ProcessMessage, matching responses to calls by order of issue
ProcessMessage_InOrder(m) ==
  LET correlationId == m.correlationId IN
  IF correlationId = Undefined \/ correlationId = Null
    THEN /\ log' = [msg |-> "message lacks correlation-id"]
         /\ UNCHANGED <<pc, corr, requests, timers, completion, sendErr, thrown, svars, bvars, pvars, evars>>
  ELSE IF correlationId \notin DOMAIN requests
    THEN /\ log' = [msg |-> "invalid correlation-id: ", arg |-> correlationId]
         /\ UNCHANGED <<pc, corr, requests, timers, completion, sendErr, thrown, svars, bvars, pvars, evars>>
  ELSE LET key == Oldest(requests)
           request == requests[key] IN
         /\ timers' = timers \ {request.timeoutId}
         /\ completion' = [completion EXCEPT
                             ![request.call] =
                                Settle(@, BodyOutcome(m).kind, BodyOutcome(m).value,
                                       [src |-> "message", m |-> m])]
         /\ requests' = Delete(requests, key)
         /\ UNCHANGED <<pc, corr, sendErr, log, thrown, svars, bvars, pvars, evars>>

\* ProcessMessage, clearing every armed timer
ProcessMessage_ClearTimers(m) ==
  LET correlationId == m.correlationId IN
  IF correlationId = Undefined \/ correlationId = Null
    THEN /\ log' = [msg |-> "message lacks correlation-id"]
         /\ UNCHANGED <<pc, corr, requests, timers, completion, sendErr, thrown, svars, bvars, pvars, evars>>
  ELSE IF correlationId \notin DOMAIN requests
    THEN /\ log' = [msg |-> "invalid correlation-id: ", arg |-> correlationId]
         /\ UNCHANGED <<pc, corr, requests, timers, completion, sendErr, thrown, svars, bvars, pvars, evars>>
  ELSE LET request == requests[correlationId] IN
         /\ timers' = {}
         /\ completion' = [completion EXCEPT
                             ![request.call] =
                                Settle(@, BodyOutcome(m).kind, BodyOutcome(m).value,
                                       [src |-> "message", m |-> m])]
         /\ requests' = Delete(requests, correlationId)
         /\ UNCHANGED <<pc, corr, sendErr, log, thrown, svars, bvars, pvars, evars>>

\* RpcClient.prototype._processMessage
ProcessMessage(m) ==
  LET correlationId == m.correlationId IN
  IF correlationId = Undefined \/ correlationId = Null
    THEN /\ log' = [msg |-> "message lacks correlation-id"]
         /\ UNCHANGED <<pc, corr, requests, timers, completion, sendErr, thrown, svars, bvars, pvars, evars>>
  ELSE IF correlationId \notin DOMAIN requests
    THEN /\ log' = [msg |-> "invalid correlation-id: ", arg |-> correlationId]
         /\ UNCHANGED <<pc, corr, requests, timers, completion, sendErr, thrown, svars, bvars, pvars, evars>>
  ELSE LET request == requests[correlationId] IN
         /\ timers' = timers \ {request.timeoutId}
         /\ completion' = [completion EXCEPT
                             ![request.call] =
                                Settle(@, BodyOutcome(m).kind, BodyOutcome(m).value,
                                       [src |-> "message", m |-> m])]
         /\ requests' = Delete(requests, correlationId)
         /\ UNCHANGED <<pc, corr, sendErr, log, thrown, svars, bvars, pvars, evars>>

\* RpcClient.prototype.connect: the receiver's errorReceived listener.
\* It reads self.requests, a property the client never sets, so
\* Object.keys(undefined) raises a TypeError before the loop runs.
ErrorReceived(err) ==
  /\ thrown' = "TypeError"
  /\ UNCHANGED <<pc, corr, requests, timers, completion, sendErr, log, svars, bvars, pvars, evars>>

\* ================================================================ RpcServer
MaxBatch == 2                 \* items in a batch request

\* message.properties.replyTo and .correlationId of a received message
ReplyTos == {Undefined, Null, "rpc.response"}
\* (the empty string is a correlation-id a sender can supply)
CorrelationIds == {Undefined, Null, "llama", ""}

\* values a handler can return
JsUndefined == [t |-> "undefined"]
JsNull == [t |-> "null"]
HelloWorld == [t |-> "string", v |-> "hello world"]
JsFalse == [t |-> "boolean", v |-> "false"]
Redirect == [t |-> "mapping", keys |-> {"method"}]

\* error objects: own is the set of their own properties
NoData == [t |-> "none"]
Truthy(data) == data.t # "none" /\ ~(data.t = "text" /\ data.v = "")

\* errors.ProtocolError: code and message are always set, data when truthy
ProtocolError(code, msg, data) ==
  [own |-> IF Truthy(data) THEN {"code", "message", "data"} ELSE {"code", "message"},
   code |-> code, message |-> msg, data |-> data]

\* errors a handler can fail with: one without a code, one carrying -32601,
\* one without any own property
Boom == [own |-> {"message"}, code |-> 0, message |-> "boom", data |-> NoData]
Gone == [own |-> {"code", "message"}, code |-> MethodNotFound, message |-> "gone",
         data |-> NoData]
Bare == [own |-> {}, code |-> 0, message |-> "", data |-> NoData]

Resolved(value) == [state |-> "resolved", value |-> value]
Rejected(error) == [state |-> "rejected", error |-> error]

\* a method definition of the registry: what the handler's completion
\* settles with, whether the definition carries an interceptor and whether
\* it carries a compiled validator
Handler(settles, interceptor, validate) ==
  [settles |-> settles, interceptor |-> interceptor, validate |-> validate]

\* RpcServer._methodHandlers after the embedder's bind calls
MethodHandlers ==
  [name \in {"testMethod", "noReturn", "returnsNull", "returnsFalse", "redirect",
             "failing", "failing601", "failingBare", "guarded", "validated"} |->
     CASE name = "testMethod" -> Handler(Resolved(HelloWorld), FALSE, FALSE)
       [] name = "noReturn" -> Handler(Resolved(JsUndefined), FALSE, FALSE)
       [] name = "returnsNull" -> Handler(Resolved(JsNull), FALSE, FALSE)
       [] name = "returnsFalse" -> Handler(Resolved(JsFalse), FALSE, FALSE)
       [] name = "redirect" -> Handler(Resolved(Redirect), FALSE, FALSE)
       [] name = "failing" -> Handler(Rejected(Boom), FALSE, FALSE)
       [] name = "failing601" -> Handler(Rejected(Gone), FALSE, FALSE)
       [] name = "failingBare" -> Handler(Rejected(Bare), FALSE, FALSE)
       [] name = "guarded" -> Handler(Resolved(HelloWorld), TRUE, FALSE)
       [] name = "validated" -> Handler(Resolved(HelloWorld), TRUE, TRUE)]

\* decoded requests; params is what methodHandler.validate(params) answers
\* for the request's parameters when the method has a validator
NoMethod == [hasMethod |-> FALSE, method |-> "", params |-> "valid"]
Request(name) == [hasMethod |-> TRUE, method |-> name, params |-> "valid"]
InvalidRequestParams(name) == [hasMethod |-> TRUE, method |-> name, params |-> "invalid"]
SingleRequests ==
  {NoMethod} \cup {Request(n) : n \in DOMAIN MethodHandlers \cup {"nope"}}
    \cup {InvalidRequestParams("validated")}
BatchItems ==
  {NoMethod} \cup {Request(n) : n \in {"testMethod", "failing", "guarded", "nope"}}
    \cup {InvalidRequestParams("validated")}
Batches == UNION {[1..n -> BatchItems] : n \in 0..MaxBatch}

\* message.body: missing, a string JSON.parse rejects, a request, a batch
ServerBodies ==
  {[kind |-> "none"]}
    \cup [kind : {"string"}, text : {"invalid message", ""}]
    \cup [kind : {"request"}, request : SingleRequests]
    \cup [kind : {"batch"}, items : Batches]

ServerMessages == [replyTo : ReplyTos, correlationId : CorrelationIds, body : ServerBodies]

\* the options of new RpcServer(client, options)
Options == [interceptor : BOOLEAN, completionInterceptor : BOOLEAN,
            ignoreUnknownMethods : BOOLEAN]
DefaultOptions == [interceptor |-> FALSE, completionInterceptor |-> FALSE,
                   ignoreUnknownMethods |-> FALSE]

NoMessage == [replyTo |-> Undefined, correlationId |-> Undefined, body |-> [kind |-> "none"]]
NoChain == [state |-> "none"]
NoResponse == [kind |-> "undefined"]

Ev(name) == [e |-> name]
\* a call of an interceptor and whether it returned anything but false
Called(name, continue) == [e |-> name, continue |-> continue]
Has(name) == \E i \in DOMAIN events : events[i].e = name
Count(name) == Cardinality({i \in DOMAIN events : events[i].e = name})

\* formatError, copying the properties without defaults
formatError_NoDefaults(error) ==
  [kind |-> "error",
   error |-> [code |-> error.code, message |-> error.message,
              hasData |-> "data" \in error.own, data |-> error.data]]

\* formatError
formatError(error) ==
  [kind |-> "error",
   error |-> [code |-> IF "code" \in error.own THEN error.code ELSE InternalError,
              message |-> IF "message" \in error.own THEN error.message ELSE "Internal error",
              hasData |-> TRUE,
              data |-> IF "data" \in error.own THEN error.data
                                               ELSE [t |-> "error", error |-> error]]]

\* formatResponse, wrapping every value
formatResponse_AlwaysWrap(response) ==
  [kind |-> "result", result |-> IF response.t = "undefined" THEN JsNull ELSE response]

\* formatResponse
formatResponse(response) ==
  IF response.t = "mapping" /\ "method" \in response.keys
    THEN [kind |-> "raw", value |-> response]
    ELSE [kind |-> "result", result |-> IF response.t = "undefined" THEN JsNull ELSE response]

\* the { error: new errors.ParseError(err.message, message.body) } of _processMessage
ParseErrorResponse(text) ==
  LET err == ProtocolError(ParseError, "parse", [t |-> "text", v |-> text]) IN
  [kind |-> "error",
   error |-> [code |-> err.code, message |-> err.message,
              hasData |-> "data" \in err.own, data |-> err.data]]

\* IsNotification, taking only null for a missing property
IsNotification_OnlyNull(replyTo, correlationId) ==
  replyTo = Null /\ correlationId = Null

\* _respond, the guard of the notification branch, with the precedence
\* JavaScript gives it: a || (b && c) || d
IsNotification(replyTo, correlationId) ==
  \/ replyTo = Null
  \/ (replyTo = Undefined /\ correlationId = Null)
  \/ correlationId = Undefined

\* _respond: !!correlationId
HasCorrelationId(correlationId) == correlationId \notin {Undefined, Null, ""}

\* RespondEvents, without the ignoreUnknownMethods test
RespondEvents_NeverIgnore(replyTo, correlationId, response) ==
  IF response = NoResponse THEN <<>>
  ELSE IF IsNotification(replyTo, correlationId)
    THEN IF response.kind = "error" THEN <<[e |-> "log", arg |-> response]>> ELSE <<>>
  ELSE <<[e |-> "createSender", address |-> replyTo]>>

\* _respond up to createSender: the events it adds
RespondEvents(replyTo, correlationId, response) ==
  IF response = NoResponse THEN <<>>
  ELSE IF /\ response.kind = "error"
          /\ response.error.code = MethodNotFound
          /\ options.ignoreUnknownMethods THEN <<>>
  ELSE IF IsNotification(replyTo, correlationId)
    THEN IF response.kind = "error" THEN <<[e |-> "log", arg |-> response]>> ELSE <<>>
  ELSE <<[e |-> "createSender", address |-> replyTo]>>

\* _respond: on createSender wait for the sender, otherwise the dispatch is over
AfterRespond(replyTo, correlationId, response, before) ==
  LET added == RespondEvents(replyTo, correlationId, response) IN
  /\ events' = before \o added
  /\ IF added # <<>> /\ added[1].e = "createSender"
       THEN /\ spc' = "creating"
            /\ chain' = [response |-> response,
                         properties |-> IF HasCorrelationId(correlationId)
                                          THEN [hasCorrelationId |-> TRUE,
                                                correlationId |-> correlationId]
                                          ELSE [hasCorrelationId |-> FALSE,
                                                correlationId |-> Undefined]]
       ELSE /\ spc' = "done"
            /\ chain' = NoChain

\* the data of the InvalidParamsError: { source: ..., messages: validate.errors }
ValidationData(source) ==
  [t |-> "validation", source |-> source, messages |-> "validate.errors"]

\* processRequest, calling no validator
processRequest_NoValidate(replyTo, request) ==
  LET source == [t |-> "source", replyTo |-> replyTo, request |-> request] IN
  IF ~request.hasMethod
    THEN [throws |-> TRUE,
          error |-> ProtocolError(InvalidRequest, "Missing required property: method", source)]
  ELSE IF request.method \notin DOMAIN methodHandlers
    THEN [throws |-> TRUE,
          error |-> ProtocolError(MethodNotFound, "No such method: " \o request.method, source)]
  ELSE [throws |-> FALSE, method |-> request.method]

\* _processRequest: the handler to call, or the error thrown
processRequest(replyTo, request) ==
  LET source == [t |-> "source", replyTo |-> replyTo, request |-> request] IN
  IF ~request.hasMethod
    THEN [throws |-> TRUE,
          error |-> ProtocolError(InvalidRequest, "Missing required property: method", source)]
  ELSE IF request.method \notin DOMAIN methodHandlers
    THEN [throws |-> TRUE,
          error |-> ProtocolError(MethodNotFound, "No such method: " \o request.method, source)]
  ELSE IF methodHandlers[request.method].validate /\ request.params = "invalid"
    THEN [throws |-> TRUE,
          error |-> ProtocolError(InvalidParams, "Validation Error", ValidationData(source))]
  ELSE [throws |-> FALSE, method |-> request.method]

\* what an interceptor can return: false (FALSE) or anything else (TRUE);
\* an interceptor that is not configured is not called
Returns(configured) == IF configured THEN BOOLEAN ELSE {TRUE}

\* InterceptorStops, going on whatever the interceptor returns
InterceptorStops_Never(continue) == FALSE

\* _processMessage: the global interceptor is configured and returned false
InterceptorStops(continue) == options.interceptor /\ ~continue

\* AcceptBatch, leaving the message unsettled
AcceptBatch_Never(before) == before

\* _processMessage, batch mode: receiver.accept(message) before the reduction
AcceptBatch(before) == Append(before, Ev("accept"))

\* MissingBody, accepting the message
MissingBody_Accept ==
  <<[e |-> "log", arg |-> [kind |-> "missing", property |-> "body"]], Ev("accept")>>

\* _processMessage: u.assertProperties(message, logger, ['body']) fails, the
\* missing property is logged and the message is modified
MissingBody ==
  <<[e |-> "log", arg |-> [kind |-> "missing", property |-> "body"]],
    [e |-> "modify", undeliverableHere |-> TRUE]>>

\* RpcServer.prototype._processMessage, the synchronous part.  continue and
\* proceed are what the global and the per-method interceptor return
\* (anything but false is TRUE).
ServerProcessMessage(m, continue, proceed) ==
  /\ spc = "idle"
  /\ continue \in Returns(options.interceptor)
  /\ proceed \in Returns(m.body.kind = "request" /\ m.body.request.hasMethod
                            /\ m.body.request.method \in DOMAIN methodHandlers
                            /\ methodHandlers[m.body.request.method].interceptor)
  /\ message' = m
  /\ IF m.body.kind = "none"
       THEN /\ events' = MissingBody
            /\ spc' = "done"
            /\ chain' = NoChain
     ELSE IF m.body.kind = "string"
       THEN AfterRespond(m.replyTo, m.correlationId, ParseErrorResponse(m.body.text),
                         <<Ev("parseError")>>)
     ELSE LET pre == IF options.interceptor THEN <<Called("interceptor", continue)>> ELSE <<>> IN
       IF InterceptorStops(continue)
         THEN /\ events' = pre
              /\ spc' = "done"
              /\ chain' = NoChain
       ELSE IF m.body.kind = "batch"
         THEN /\ events' = AcceptBatch(pre)
              /\ spc' = "batch"
              /\ chain' = [acc |-> <<>>]
       ELSE LET r == processRequest(m.replyTo, m.body.request) IN
         IF r.throws
           THEN /\ events' = pre
                /\ spc' = "settled"
                /\ chain' = Rejected(r.error)
         ELSE IF methodHandlers[r.method].interceptor /\ ~proceed
           THEN /\ events' = pre \o <<Called("methodInterceptor", proceed)>>
                /\ spc' = "settled"
                /\ chain' = Resolved(JsUndefined)
         ELSE /\ events' = pre
                   \o (IF methodHandlers[r.method].interceptor
                         THEN <<Called("methodInterceptor", proceed)>> ELSE <<>>)
                   \o <<[e |-> "handler", method |-> r.method]>>
              /\ spc' = "handler"
              /\ chain' = [state |-> "pending", method |-> r.method]
  /\ UNCHANGED <<options, cvars, bvars, pvars, evars>>

\* the completion returned by the handler settles (single mode)
HandlerSettles ==
  /\ spc = "handler"
  /\ chain' = methodHandlers[chain.method].settles
  /\ spc' = "settled"
  /\ events' = Append(events, Ev("settled"))
  /\ UNCHANGED <<options, message, cvars, bvars, pvars, evars>>

\* _processMessage, single mode: the callbacks chained on the completion
\* (.then formatResponse, .error accept + formatError, .then completion
\* interceptor, accept, _respond).  continue is what the completion
\* interceptor returns.  The .error callback handles every failure of the
\* chain, the errors _processRequest throws included, as the tests of the
\* server expect (an error response for a request without method).
Complete(continue) ==
  /\ spc = "settled"
  /\ continue \in Returns(options.completionInterceptor)
  /\ LET failed == chain.state = "rejected"
         response == IF failed THEN formatError(chain.error) ELSE formatResponse(chain.value)
         formatted == events \o (IF failed THEN <<Ev("accept"), Ev("formatError")>>
                                           ELSE <<Ev("formatResponse")>>)
         hooked == formatted \o (IF options.completionInterceptor
                                   THEN <<Called("completionInterceptor", continue)>> ELSE <<>>)
     IN IF options.completionInterceptor /\ ~continue
          THEN /\ events' = hooked
               /\ spc' = "done"
               /\ chain' = NoChain
          ELSE AfterRespond(message.replyTo, message.correlationId, response,
                            Append(hooked, Ev("accept")))
  /\ UNCHANGED <<options, message, cvars, bvars, pvars, evars>>

\* BatchItem, taking the items from the last to the first
BatchItem_Reversed ==
  /\ spc = "batch"
  /\ Len(chain.acc) < Len(message.body.items)
  /\ LET r == processRequest(message.replyTo,
                             message.body.items[Len(message.body.items) - Len(chain.acc)]) IN
       IF r.throws
         THEN /\ chain' = [acc |-> Append(chain.acc, formatError(r.error))]
              /\ events' = Append(events, Ev("formatError"))
              /\ spc' = "batch"
         ELSE /\ chain' = [acc |-> chain.acc, method |-> r.method]
              /\ events' = Append(events, [e |-> "handler", method |-> r.method])
              /\ spc' = "item"
  /\ UNCHANGED <<options, message, cvars, bvars, pvars, evars>>

\* BatchItem, ending the batch at the first item _processRequest refuses
BatchItem_Abort ==
  /\ spc = "batch"
  /\ Len(chain.acc) < Len(message.body.items)
  /\ LET r == processRequest(message.replyTo, message.body.items[Len(chain.acc) + 1]) IN
       IF r.throws
         THEN /\ chain' = NoChain
              /\ events' = Append(events, Ev("formatError"))
              /\ spc' = "done"
         ELSE /\ chain' = [acc |-> chain.acc, method |-> r.method]
              /\ events' = Append(events, [e |-> "handler", method |-> r.method])
              /\ spc' = "item"
  /\ UNCHANGED <<options, message, cvars, bvars, pvars, evars>>

\* _processMessage, batch mode: the reducer is called for the next item
BatchItem ==
  /\ spc = "batch"
  /\ Len(chain.acc) < Len(message.body.items)
  /\ LET r == processRequest(message.replyTo, message.body.items[Len(chain.acc) + 1]) IN
       IF r.throws
         THEN /\ chain' = [acc |-> Append(chain.acc, formatError(r.error))]
              /\ events' = Append(events, Ev("formatError"))
              /\ spc' = "batch"
         ELSE /\ chain' = [acc |-> chain.acc, method |-> r.method]
              /\ events' = Append(events, [e |-> "handler", method |-> r.method])
              /\ spc' = "item"
  /\ UNCHANGED <<options, message, cvars, bvars, pvars, evars>>

\* BatchItemSettles, putting the response in front of the accumulator
BatchItemSettles_Prepend ==
  /\ spc = "item"
  /\ LET outcome == methodHandlers[chain.method].settles
         failed == outcome.state = "rejected"
         response == IF failed THEN formatError(outcome.error)
                               ELSE formatResponse(outcome.value)
     IN /\ chain' = [acc |-> <<response>> \o chain.acc]
        /\ events' = events \o <<Ev("settled"),
                                 IF failed THEN Ev("formatError") ELSE Ev("formatResponse")>>
  /\ spc' = "batch"
  /\ UNCHANGED <<options, message, cvars, bvars, pvars, evars>>

\* _processMessage, batch mode: the completion of the item's handler settles
\* and its response is pushed
BatchItemSettles ==
  /\ spc = "item"
  /\ LET outcome == methodHandlers[chain.method].settles
         failed == outcome.state = "rejected"
         response == IF failed THEN formatError(outcome.error)
                               ELSE formatResponse(outcome.value)
     IN /\ chain' = [acc |-> Append(chain.acc, response)]
        /\ events' = events \o <<Ev("settled"),
                                 IF failed THEN Ev("formatError") ELSE Ev("formatResponse")>>
  /\ spc' = "batch"
  /\ UNCHANGED <<options, message, cvars, bvars, pvars, evars>>

\* _processMessage, batch mode: the .then after Promise.reduce
BatchComplete(continue) ==
  /\ spc = "batch"
  /\ continue \in Returns(options.completionInterceptor)
  /\ Len(chain.acc) = Len(message.body.items)
  /\ LET hooked == events \o (IF options.completionInterceptor
                                THEN <<Called("completionInterceptor", continue)>> ELSE <<>>)
     IN IF options.completionInterceptor /\ ~continue
          THEN /\ events' = hooked
               /\ spc' = "done"
               /\ chain' = NoChain
          ELSE AfterRespond(message.replyTo, message.correlationId,
                            [kind |-> "batch", items |-> chain.acc], hooked)
  /\ UNCHANGED <<options, message, cvars, bvars, pvars, evars>>

\* _respond: createSender is fulfilled and the response is sent
SenderCreated ==
  /\ spc = "creating"
  /\ events' = Append(events, [e |-> "send", body |-> chain.response,
                               properties |-> chain.properties])
  /\ spc' = "done"
  /\ chain' = NoChain
  /\ UNCHANGED <<options, message, cvars, bvars, pvars, evars>>

\* the dispatch of the message is over and the receiver is ready to emit
\* the next one
ReceiverReady ==
  /\ spc = "done"
  /\ message' = NoMessage
  /\ spc' = "idle"
  /\ chain' = NoChain
  /\ events' = <<>>
  /\ UNCHANGED <<options, cvars, bvars, pvars, evars>>

ServerIdle ==
  /\ message = NoMessage
  /\ spc = "idle"
  /\ chain = NoChain
  /\ events = <<>>

\* the server once the embedder has bound its methods
Bound ==
  /\ methodHandlers = MethodHandlers
  /\ raised = "none"
  /\ detail = "none"

ServerInit ==
  /\ ClientInit
  /\ options \in Options
  /\ ServerIdle
  /\ Bound
  /\ NoParams
  /\ NoEnvelope

ServerNext ==
  \/ \E m \in ServerMessages, continue, proceed \in BOOLEAN :
       ServerProcessMessage(m, continue, proceed)
  \/ HandlerSettles
  \/ \E continue \in BOOLEAN : Complete(continue)
  \/ BatchItem
  \/ BatchItemSettles
  \/ \E continue \in BOOLEAN : BatchComplete(continue)
  \/ SenderCreated
  \/ ReceiverReady

ServerSpec == ServerInit /\ [][ServerNext]_vars

\* ------------------------------------------------------------------- bind
\* names given to bind; a function without a name has the name ''
BindNames == {"testMethod", "other", ""}

\* what a definition's params can be: absent (or falsy), a schema naming
\* parameters of the method, and the three shapes bind refuses
Validations == {"none", "valid", "notPlainObject", "missingProperties", "unknownParameter"}

\* bind(methodNameOrDef, method): the first argument is a named or
\* anonymous function, a string, or a definition with or without the
\* properties method, params and interceptor; only a definition carries
\* params and interceptor, and a definition without method names nothing;
\* two different handlers are bound by name, one of them with definitions
BindCalls ==
  {call \in [form : {"function", "string", "definition"}, name : BindNames,
             hasMethod : BOOLEAN, params : Validations, interceptor : BOOLEAN,
             settles : {Resolved(HelloWorld), Rejected(Boom)}] :
     /\ call.form # "definition" =>
          call.hasMethod /\ call.params = "none" /\ ~call.interceptor
     /\ ~call.hasMethod => call.name = ""
     /\ call.form = "definition" => call.settles = Resolved(HelloWorld)}

\* BindRaises, without the test of the schema's property names
BindRaises_NoParameterCheck(call, registry) ==
  IF call.form = "function" /\ call.name = ""
    THEN "InvalidMethodNameError"
  ELSE IF call.form = "definition" /\ ~call.hasMethod
    THEN "InvalidMethodDefinitionError"
  ELSE IF call.params \in {"notPlainObject", "missingProperties"}
    THEN "InvalidValidationDefinitionError"
  ELSE IF call.name \in DOMAIN registry
    THEN "DuplicateMethodError"
  ELSE "none"

\* bind: the error the call raises on the registry, "none" when it returns
BindRaises(call, registry) ==
  IF call.form = "function" /\ call.name = ""
    THEN "InvalidMethodNameError"
  ELSE IF call.form = "definition" /\ ~call.hasMethod
    THEN "InvalidMethodDefinitionError"
  ELSE IF call.params \in {"notPlainObject", "missingProperties", "unknownParameter"}
    THEN "InvalidValidationDefinitionError"
  ELSE IF call.name \in DOMAIN registry
    THEN "DuplicateMethodError"
  ELSE "none"

\* bind: the argument of the error's constructor
BindDetail(call, error) ==
  CASE error = "InvalidMethodNameError" -> call.name
    [] error = "InvalidMethodDefinitionError" -> "missing method name"
    [] error = "InvalidValidationDefinitionError" ->
         (CASE call.params = "notPlainObject" -> "not a plain object"
            [] call.params = "missingProperties" -> "missing properties"
            [] OTHER -> "unknown parameter")
    [] error = "DuplicateMethodError" -> call.name
    [] OTHER -> "none"

\* bind: this._methodHandlers[methodName] = methodDefinition
Register(registry, call) ==
  [n \in DOMAIN registry \cup {call.name} |->
     IF n = call.name
       THEN Handler(call.settles, call.interceptor, call.params = "valid")
       ELSE registry[n]]

\* Bind, registering the definition whether or not the name is taken
Bind_Overwrite(call) ==
  /\ raised' = BindRaises(call, <<>>)
  /\ detail' = BindDetail(call, raised')
  /\ methodHandlers' = IF raised' = "none" THEN Register(methodHandlers, call)
                                           ELSE methodHandlers
  /\ UNCHANGED <<cvars, svars, pvars, evars>>

\* RpcServer.prototype.bind
Bind(call) ==
  /\ raised' = BindRaises(call, methodHandlers)
  /\ detail' = BindDetail(call, raised')
  /\ methodHandlers' = IF raised' = "none" THEN Register(methodHandlers, call)
                                           ELSE methodHandlers
  /\ UNCHANGED <<cvars, svars, pvars, evars>>

\* a server just constructed: this._methodHandlers = {}
BindInit ==
  /\ ClientInit
  /\ options = DefaultOptions
  /\ ServerIdle
  /\ methodHandlers = <<>>
  /\ raised = "none"
  /\ detail = "none"
  /\ NoParams
  /\ NoEnvelope

BindNext == \E call \in BindCalls : Bind(call)

BindSpec == BindInit /\ [][BindNext]_vars

\* ----------------------------------------------------------- parameters
MaxParams == 3                \* parameters a handler declares

ParamNames == {"p" \o ToString(i) : i \in 1..MaxParams}
ParamValues == {"v1", "v2"}

\* the parameter lists bind can extract: different names in any order
ParameterLists ==
  {list \in UNION {[1..n -> ParamNames] : n \in 0..MaxParams} :
     \A i, j \in DOMAIN list : i # j => list[i] # list[j]}

\* request.params: absent, an ordered sequence, or a named mapping
SuppliedParams ==
  {[kind |-> "absent"]}
    \cup {[kind |-> "array", values |-> values] :
            values \in UNION {[1..n -> ParamValues] : n \in 0..MaxParams}}
    \cup {[kind |-> "mapping", map |-> map] :
            map \in UNION {[keys -> ParamValues] : keys \in SUBSET ParamNames}}

\* _processRequest: the sequence converted to named parameters.  The
\* callback of reduce gets the 0-based index idx = i - 1.
toNamed(list, values) ==
  [p \in {list[i] : i \in DOMAIN list} |->
     LET i == CHOOSE j \in DOMAIN list : list[j] = p
         idx == i - 1
     IN IF idx > Len(values) THEN Null
        ELSE IF idx < Len(values) THEN values[idx + 1]
        ELSE Undefined]

\* Arguments, taking the parameters from the last to the first
Arguments_Reversed(list, params) ==
  [i \in DOMAIN list |->
     LET p == list[Len(list) + 1 - i] IN
     IF p \in DOMAIN params THEN params[p] ELSE Undefined]

\* _processRequest: methodHandler.parameters.map(p => params[p])
Arguments(list, params) ==
  [i \in DOMAIN list |->
     IF list[i] \in DOMAIN params THEN params[list[i]] ELSE Undefined]

\* _processRequest from request.params on, for a method without validator
ProcessRequestParams(params) ==
  /\ supplied' = params
  /\ named' = CASE params.kind = "absent" -> toNamed(parameters, <<>>)
                [] params.kind = "array" -> toNamed(parameters, params.values)
                [] OTHER -> params.map
  /\ args' = Arguments(parameters, named')
  /\ UNCHANGED <<parameters, cvars, svars, bvars, evars>>

\* a method bound with any parameter list
ParamsInit ==
  /\ ClientInit
  /\ options = DefaultOptions
  /\ ServerIdle
  /\ Bound
  /\ parameters \in ParameterLists
  /\ supplied = [kind |-> "absent"]
  /\ named = <<>>
  /\ args = <<>>
  /\ NoEnvelope

ParamsNext == \E params \in SuppliedParams : ProcessRequestParams(params)

ParamsSpec == ParamsInit /\ [][ParamsNext]_vars

\* ===================================================== call and notify
MaxArgs == 2                  \* arguments given after the method

\* the client's timeout when options.timeout is absent or falsy
DefaultTimeout == 5000

\* RpcClient: this._timeout = options.timeout || 5000 (createRpcClient
\* passes options.timeout on only when it is truthy)
Timeout(o) ==
  IF o.timeout.set /\ o.timeout.ms # 0 THEN o.timeout.ms ELSE DefaultTimeout

\* this._receiver.remote.attach.source.address
ReceiverAddress == "rpc.response"

\* JavaScript values given to call and notify
JsNumber(n) == [t |-> "number", v |-> ToString(n)]
JsString(text) == [t |-> "string", v |-> text]
JsTrue == [t |-> "boolean", v |-> "true"]
JsArray(items) == [t |-> "array", items |-> items]
NamedParams == [t |-> "mapping", keys |-> {"one"}]

\* link overrides: { properties: { replyTo, correlationId } }
Overrides ==
  [t : {"mapping"}, keys : {{"properties"}},
   replyTo : {Undefined, "bad.dog"}, correlationId : {Undefined, "llama"}]

JsValues ==
  {JsUndefined, JsNull, JsFalse, JsTrue, JsNumber(0), JsNumber(1), JsString(""),
   HelloWorld, JsArray(<<>>), JsArray(<<JsNumber(1)>>), NamedParams} \cup Overrides

\* !!value
JsTruthy(value) ==
  value \notin {JsUndefined, JsNull, JsFalse, JsNumber(0), JsString("")}

\* u.isPlainObject
isPlainObject(value) == value.t = "mapping"

\* the first argument: a method name, a raw request, a batch
MethodArguments == {JsString("testMethod"), Redirect, JsArray(<<Redirect>>)}
ArgumentLists == UNION {[1..n -> JsValues] : n \in 0..MaxArgs}

\* u.isPlainObject(method) && method.hasOwnProperty('method') || Array.isArray(method)
IsRawRequest(method) ==
  \/ isPlainObject(method) /\ "method" \in method.keys
  \/ method.t = "array"

NoProperties == [own |-> {}, replyTo |-> Undefined, correlationId |-> Undefined]
NoHeader == [own |-> {}, ttl |-> 0]

\* call and notify: request.body.params for a method name and the
\* arguments after it
BodyParams(arguments) ==
  IF Len(arguments) + 1 > 2
    THEN [kind |-> "array", values |-> arguments]
  ELSE IF Len(arguments) = 1 /\ JsTruthy(arguments[1])
    THEN IF isPlainObject(arguments[1])
           THEN [kind |-> "mapping", value |-> arguments[1]]
           ELSE [kind |-> "array", values |-> <<arguments[1]>>]
  ELSE [kind |-> "absent"]

\* RpcClient.prototype.call: the request given to _sendRequest
CallRequest(method, arguments, correlator) ==
  [properties |-> [own |-> {"replyTo", "correlationId"},
                   replyTo |-> ReceiverAddress, correlationId |-> correlator],
   header |-> [own |-> {"ttl"}, ttl |-> Timeout(copts)],
   body |-> IF IsRawRequest(method)
              THEN [kind |-> "raw", value |-> method]
              ELSE [kind |-> "request", method |-> method,
                    params |-> BodyParams(arguments)]]

\* RpcClient.prototype.notify with a raw request: the overrides, or {}
Notification(arguments) ==
  IF Len(arguments) >= 1 /\ isPlainObject(arguments[1])
    THEN arguments[1] ELSE [t |-> "mapping", keys |-> {}]

\* notification.hasOwnProperty('properties') && !!notification.properties.replyTo
HasReplyTo(notification) ==
  /\ "properties" \in notification.keys
  /\ notification.replyTo \notin {Undefined, Null, ""}

\* RpcClient.prototype.notify: the message given to sender.send
NotifyRequest(method, arguments) ==
  IF IsRawRequest(method)
    THEN LET notification == Notification(arguments) IN
         [properties |-> IF "properties" \in notification.keys
                           THEN [own |-> {p \in {"replyTo", "correlationId"} :
                                            notification[p] # Undefined},
                                 replyTo |-> notification.replyTo,
                                 correlationId |-> notification.correlationId]
                           ELSE NoProperties,
          header |-> NoHeader,
          body |-> [kind |-> "raw", value |-> method]]
    ELSE [properties |-> NoProperties,
          header |-> NoHeader,
          body |-> [kind |-> "request", method |-> method,
                    params |-> BodyParams(arguments)]]

\* one invocation of call, up to self._sender.send(request)
CallWith(method, arguments) ==
  /\ ~envelope.sent /\ refused = "none"
  /\ \E correlator \in uuid_v4 :
       envelope' = [sent |-> TRUE, api |-> "call", method |-> method,
                    arguments |-> arguments,
                    request |-> CallRequest(method, arguments, correlator)]
  /\ UNCHANGED <<copts, refused, cvars, svars, bvars, pvars>>

\* one invocation of notify
Notify(method, arguments) ==
  /\ ~envelope.sent /\ refused = "none"
  /\ IF IsRawRequest(method) /\ HasReplyTo(Notification(arguments))
       THEN /\ refused' = "BadRequestError"
            /\ UNCHANGED envelope
       ELSE /\ envelope' = [sent |-> TRUE, api |-> "notify", method |-> method,
                            arguments |-> arguments,
                            request |-> NotifyRequest(method, arguments)]
            /\ UNCHANGED refused
  /\ UNCHANGED <<copts, cvars, svars, bvars, pvars>>

\* timeouts a client is created with: none, 0, 50 ms
ClientTimeouts == {NoTimeout, [set |-> TRUE, ms |-> 0], [set |-> TRUE, ms |-> 50]}

EnvelopeInit ==
  /\ ClientInit
  /\ options = DefaultOptions
  /\ ServerIdle
  /\ Bound
  /\ NoParams
  /\ copts \in [timeout : ClientTimeouts, interceptor : {FALSE}]
  /\ envelope = [sent |-> FALSE]
  /\ refused = "none"

EnvelopeNext ==
  \/ \E method \in MethodArguments, arguments \in ArgumentLists : CallWith(method, arguments)
  \/ \E method \in MethodArguments, arguments \in ArgumentLists : Notify(method, arguments)

EnvelopeSpec == EnvelopeInit /\ [][EnvelopeNext]_vars

\* ========================================================= batch responses
\* the items of a batch response: { result }, { error }, both, neither
ResponseItem(own) == [own |-> own, result |-> "v1", error |-> "e1"]

\* message.body when Array.isArray(message.body)
BatchBodies ==
  [kind : {"batch"},
   items : {<<>>,
            <<ResponseItem({"result"})>>,
            <<ResponseItem({"result"}), ResponseItem({"error"})>>,
            <<ResponseItem({"error"}), ResponseItem({"result"})>>,
            <<ResponseItem({}), ResponseItem({"result", "error"})>>}]

BatchMessages == [correlationId : Ids, body : BatchBodies]

\* =================================================================== client

Next ==
  \/ \E k \in Calls, id \in Ids : Call(k, id)
  \/ \E k \in Calls : SendSucceeds(k)
  \/ \E k \in Calls, err \in SendErrors : SendFails(k, err)
  \/ \E k \in Calls : Install(k)
  \/ \E k \in Calls : CatchSend(k)
  \/ \E k \in Calls : TimerFires(k)
  \/ \E m \in Messages : ProcessMessage(m)
  \/ \E err \in LinkErrors : ErrorReceived(err)

Init ==
  /\ ClientInit
  /\ options = DefaultOptions
  /\ ServerIdle
  /\ Bound
  /\ NoParams
  /\ NoEnvelope

Spec == Init /\ [][Next]_vars

\* the client when its calls are batch requests
BatchNext ==
  \/ \E k \in Calls, id \in Ids : Call(k, id)
  \/ \E k \in Calls : SendSucceeds(k)
  \/ \E k \in Calls, err \in SendErrors : SendFails(k, err)
  \/ \E k \in Calls : Install(k)
  \/ \E k \in Calls : CatchSend(k)
  \/ \E k \in Calls : TimerFires(k)
  \/ \E m \in BatchMessages : ProcessMessage(m)

BatchSpec == Init /\ [][BatchNext]_vars

TypeOK ==
  /\ pc \in [Calls -> {"none", "sending", "sendok", "sendfail", "installed", "rejected",
                      "suppressed"}]
  /\ DOMAIN requests \subseteq Ids
  /\ timers \subseteq Calls

\* the event loop runs every queued promise callback and fires every armed
\* timer
LiveSpec ==
  /\ Init /\ [][Next]_vars
  /\ \A k \in Calls : WF_vars(Install(k)) /\ WF_vars(CatchSend(k)) /\ WF_vars(TimerFires(k))

\* ========================================================= client options
\* the deadline is in force unless the configured timeout is 0
DeadlineEnabled(o) == ~(o.timeout.set /\ o.timeout.ms = 0)

\* Intercepted, arming no deadline
Intercepted_NoDeadline(k, id) ==
  /\ copts.interceptor
  /\ pc[k] = "none"
  /\ \A j \in Calls : j < k => pc[j] # "none"
  /\ id \in uuid_v4
  /\ corr' = [corr EXCEPT ![k] = id]
  /\ pc' = [pc EXCEPT ![k] = "suppressed"]
  /\ UNCHANGED <<requests, timers, completion, sendErr, log, thrown, svars, bvars, pvars, evars>>

\* call when the client interceptor returns false: the send is suppressed,
\* the completion stays pending and the deadline, if in force, still runs
Intercepted(k, id) ==
  /\ copts.interceptor
  /\ pc[k] = "none"
  /\ \A j \in Calls : j < k => pc[j] # "none"
  /\ id \in uuid_v4
  /\ corr' = [corr EXCEPT ![k] = id]
  /\ pc' = [pc EXCEPT ![k] = "suppressed"]
  /\ IF DeadlineEnabled(copts)
       THEN /\ requests' = [c \in DOMAIN requests \cup {id} |->
                              IF c = id THEN [call |-> k, timeoutId |-> k] ELSE requests[c]]
            /\ timers' = timers \cup {k}
       ELSE UNCHANGED <<requests, timers>>
  /\ UNCHANGED <<completion, sendErr, log, thrown, svars, bvars, pvars, evars>>

\* the requests that reached the sender
SentIds == {corr[k] : k \in {j \in Calls : pc[j] \notin {"none", "suppressed"}}}

\* the responses of the server: to requests that were sent
Answers == [correlationId : Ids, body : ResultBodies]

\* the response receiver emits the answer to a request
Answer(m) ==
  /\ m.correlationId \in SentIds
  /\ ProcessMessage(m)

OptionsInit ==
  /\ ClientInit
  /\ options = DefaultOptions
  /\ ServerIdle
  /\ Bound
  /\ NoParams
  /\ copts \in [timeout : ClientTimeouts, interceptor : BOOLEAN]
  /\ envelope = [sent |-> FALSE]
  /\ refused = "none"

OptionsNext ==
  \/ \E k \in Calls, id \in Ids : Call(k, id)
  \/ \E k \in Calls, id \in Ids : Intercepted(k, id)
  \/ \E k \in Calls : SendSucceeds(k)
  \/ \E k \in Calls, err \in SendErrors : SendFails(k, err)
  \/ \E k \in Calls : Install(k)
  \/ \E k \in Calls : CatchSend(k)
  \/ \E k \in Calls : TimerFires(k)
  \/ \E m \in Answers : Answer(m)

\* clients created with any options; queued promise callbacks run and armed
\* timers fire
OptionsSpec ==
  /\ OptionsInit /\ [][OptionsNext]_vars
  /\ \A k \in Calls : WF_vars(Install(k)) /\ WF_vars(CatchSend(k)) /\ WF_vars(TimerFires(k))

\* ------------------------------------------------------------------ claims

\* the call whose correlator is c has been rejected by its deadline timer
TimedOut(c) == \E k \in Calls : corr[k] = c /\ completion[k].via.src = "timer"

InvalidCorrelation(c) == [msg |-> "invalid correlation-id: ", arg |-> c]

\* C1: whatever the interleaving of responses, duplicate responses and the
\* deadline timer, resolve/reject is invoked at most once on the completion
\* of each call.
C1_SettledAtMostOnce == \A k \in Calls : completion[k].count <= 1

\* a call was settled by a response and a second response with its
\* correlator has been dropped
C1_Witness ==
  \E k \in Calls :
    /\ completion[k].count = 1
    /\ completion[k].via.src = "message"
    /\ log = InvalidCorrelation(corr[k])

\* C4 (as stated): errorReceived(err) rejects every pending call with err and
\* empties the pending table.
C4_LinkErrorRejectsAll ==
  [][\A err \in LinkErrors :
       ErrorReceived(err) =>
         /\ DOMAIN requests' = {}
         /\ \A c \in DOMAIN requests :
              /\ completion'[requests[c].call].kind = "rejected"
              /\ completion'[requests[c].call].value = [t |-> "error", type |-> err]]_vars

\* C5: a deadline timer that finds its entry rejects the call with
\* RequestTimeout and removes the entry; a response with that correlator
\* handled afterwards is logged as an invalid correlation-id and changes
\* neither the completions nor the pending table.
C5_TimeoutThenLateResponse ==
  [][/\ \A k \in Calls :
          (TimerFires(k) /\ corr[k] \in DOMAIN requests) =>
             /\ completion'[k].count = 1
             /\ completion'[k].kind = "rejected"
             /\ completion'[k].value = RequestTimeoutError
             /\ corr[k] \notin DOMAIN requests'
     /\ \A m \in Messages :
          (ProcessMessage(m) /\ TimedOut(m.correlationId)) =>
             /\ log' = InvalidCorrelation(m.correlationId)
             /\ completion' = completion
             /\ requests' = requests]_vars

\* a call timed out and a response carrying its correlator was dropped
C5_Witness ==
  \E k \in Calls :
    /\ completion[k] = [count |-> 1, kind |-> "rejected",
                        value |-> RequestTimeoutError, via |-> [src |-> "timer"]]
    /\ corr[k] \notin DOMAIN requests
    /\ log = InvalidCorrelation(corr[k])

\* C6: a response whose correlationId is undefined, null or not a key of
\* the pending table is logged and leaves the pending table, the timers
\* and every completion unchanged.
C6_UnmatchedResponseDropped ==
  [][\A m \in Messages :
       (/\ ProcessMessage(m)
        /\ \/ m.correlationId \in {Undefined, Null}
           \/ m.correlationId \notin DOMAIN requests) =>
         /\ requests' = requests
         /\ timers' = timers
         /\ completion' = completion
         /\ log' = IF m.correlationId \in {Undefined, Null}
                     THEN [msg |-> "message lacks correlation-id"]
                     ELSE InvalidCorrelation(m.correlationId)]_vars

\* a response with a correlator no call ever had was dropped while a call
\* is pending
C6_Witness ==
  /\ DOMAIN requests # {}
  /\ log.msg = "invalid correlation-id: "
  /\ log.arg \notin UsedIds
  /\ \A k \in Calls : completion[k].count = 0

\* C7: with timers firing, every call whose send succeeded is eventually
\* settled and absent from the pending table.
C7_EventuallySettled ==
  \A k \in Calls :
    (pc[k] = "sendok") ~> (completion[k].count = 1 /\ corr[k] \notin DOMAIN requests)

\* every call was sent and installed, and all are settled and removed
C7_Witness ==
  /\ \A k \in Calls : pc[k] = "installed" /\ completion[k].count = 1
  /\ DOMAIN requests = {}
  /\ \E k \in Calls : completion[k].via.src = "timer"

\* C8: every key of the pending table is the correlator of a call whose
\* send has completed successfully.
C8_InstalledOnlyAfterSend ==
  \A c \in DOMAIN requests :
    /\ corr[requests[c].call] = c
    /\ pc[requests[c].call] = "installed"

\* one call is in the table while another, still being sent, is not
C8_Witness ==
  \E j, k \in Calls :
    /\ corr[j] \in DOMAIN requests
    /\ pc[k] = "sending"
    /\ corr[k] \notin DOMAIN requests

\* C9: a call whose send failed has no pending entry and no timer, and once
\* the failure is handled it is rejected with the send error.
C9_SendFailureRejects ==
  \A k \in Calls :
    pc[k] \in {"sendfail", "rejected"} =>
      /\ corr[k] \notin DOMAIN requests
      /\ k \notin timers
      /\ pc[k] = "rejected" =>
           completion[k] = [count |-> 1, kind |-> "rejected",
                            value |-> [t |-> "error", type |-> sendErr[k]],
                            via |-> [src |-> "send"]]

\* a call was rejected because its send failed
C9_Witness ==
  \E k \in Calls : pc[k] = "rejected" /\ sendErr[k] \in SendErrors

\* C10: calls issued on one client have different correlators, and a call
\* settled by a response is settled by a response carrying its own
\* correlator, with that response's outcome.
C10_MatchedByCorrelator ==
  /\ \A j, k \in Calls :
       (j # k /\ pc[j] # "none" /\ pc[k] # "none") => corr[j] # corr[k]
  /\ \A k \in Calls :
       completion[k].via.src = "message" =>
         /\ completion[k].via.m.correlationId = corr[k]
         /\ completion[k].kind = BodyOutcome(completion[k].via.m).kind
         /\ completion[k].value = BodyOutcome(completion[k].via.m).value

\* the call issued second was answered while the call issued first is
\* still pending
C10_Witness ==
  \E j, k \in Calls :
    /\ j < k
    /\ corr[j] \in DOMAIN requests
    /\ completion[k].via.src = "message"
    /\ completion[k].kind = "resolved"

\* --------------------------------------------------------- claims (server)

Present(value) == value \notin {Undefined, Null}

\* the interceptor of that name was called and returned false
ReturnedFalse(name) == \E i \in DOMAIN events : events[i].e = name /\ ~events[i].continue

\* the error response the dispatch of a failing single request or of an
\* unparsable body produces
DispatchError(m) ==
  IF m.body.kind = "string" THEN ParseErrorResponse(m.body.text)
  ELSE LET r == processRequest(m.replyTo, m.body.request) IN
       IF r.throws THEN formatError(r.error)
                   ELSE formatError(methodHandlers[r.method].settles.error)

\* C2 (as stated): once the dispatch of a message with a body and with
\* replyTo or correlationId (or both) is over, no interceptor having
\* returned false and ignoreUnknownMethods being off, exactly one response
\* message has been sent.
C2_ExactlyOneResponse ==
  (/\ spc = "done"
   /\ message.body.kind # "none"
   /\ Present(message.replyTo) \/ Present(message.correlationId)
   /\ ~ReturnedFalse("interceptor")
   /\ ~ReturnedFalse("methodInterceptor")
   /\ ~ReturnedFalse("completionInterceptor")
   /\ ~options.ignoreUnknownMethods)
    => Count("send") = 1

Routed == Present(message.replyTo) /\ Present(message.correlationId)

\* the response messages sent for the message being dispatched
Sent == {events[i] : i \in {j \in DOMAIN events : events[j].e = "send"}}

\* C11 (as stated): every response sent carries the request's
\* correlationId when the request supplied one, whatever its value, and no
\* correlationId property when the request supplied none.
C11_CorrelationIdEchoed ==
  \A response \in Sent :
    IF Present(message.correlationId)
      THEN response.properties = [hasCorrelationId |-> TRUE,
                                  correlationId |-> message.correlationId]
      ELSE ~response.properties.hasCorrelationId

\* C12: in single mode, the response to a request whose handler returned V
\* (directly or through its completion) has the body { result: V }, with
\* null for a handler that returned nothing, and the body V itself when V
\* is a mapping with a method key; with both routing properties and no
\* interceptor suppressing the reply, that response is sent.
C12_ResultWrapped ==
  (/\ message.body.kind = "request"
   /\ Has("handler")
   /\ methodHandlers[message.body.request.method].settles.state = "resolved") =>
    LET V == methodHandlers[message.body.request.method].settles.value IN
    /\ \A response \in Sent :
         response.body =
           IF V.t = "mapping" /\ "method" \in V.keys
             THEN [kind |-> "raw", value |-> V]
             ELSE [kind |-> "result", result |-> IF V = JsUndefined THEN JsNull ELSE V]
    /\ (spc = "done" /\ Routed /\ ~ReturnedFalse("completionInterceptor"))
         => Cardinality(Sent) = 1

\* the handler returned a mapping with a method key and it was sent as the
\* body of the response
C12_Witness ==
  /\ spc = "done"
  /\ message.body.kind = "request"
  /\ message.body.request.method = "redirect"
  /\ \E response \in Sent : response.body = [kind |-> "raw", value |-> Redirect]

\* the response one request of a batch produces
ItemResponse(replyTo, request) ==
  LET r == processRequest(replyTo, request) IN
  IF r.throws THEN formatError(r.error)
  ELSE IF methodHandlers[r.method].settles.state = "rejected"
    THEN formatError(methodHandlers[r.method].settles.error)
    ELSE formatResponse(methodHandlers[r.method].settles.value)

HandlerCalls == SelectSeq(events, LAMBDA ev : ev.e = "handler")

\* the items of the batch _processRequest accepts, in order
Dispatchable ==
  SelectSeq(message.body.items,
            LAMBDA request : ~processRequest(message.replyTo, request).throws)

\* C14: within a batch the handlers are invoked in the order of the items,
\* and between two invocations the completion of the earlier one has
\* settled.
C14_BatchSerialized ==
  message.body.kind = "batch" =>
    /\ Len(HandlerCalls) <= Len(Dispatchable)
    /\ \A n \in DOMAIN HandlerCalls : HandlerCalls[n].method = Dispatchable[n].method
    /\ \A i, j \in DOMAIN events :
         (i < j /\ events[i].e = "handler" /\ events[j].e = "handler")
           => \E k \in (i + 1)..(j - 1) : events[k].e = "settled"

\* two different handlers of one batch have been invoked
C14_Witness ==
  /\ message.body.kind = "batch"
  /\ Len(HandlerCalls) >= 2
  /\ HandlerCalls[1].method # HandlerCalls[2].method

DispatchFailure ==
  LET r == processRequest(message.replyTo, message.body.request) IN
  IF r.throws THEN r.error ELSE methodHandlers[r.method].settles.error

C18_ParseErrorCarriesText ==
  (spc = "done" /\ message.body.kind = "string" /\ Routed) =>
    \E response \in Sent :
      /\ response.body.kind = "error"
      /\ response.body.error.code = -32700
      /\ response.body.error.hasData
      /\ response.body.error.data = [t |-> "text", v |-> message.body.text]

\* C19 (as stated): once the dispatch of a message whose string body
\* JSON.parse rejects is over, the message has been accepted.
C19_ParseFailureAccepted ==
  (spc = "done" /\ message.body.kind = "string") => Has("accept")

\* C20: a message without body is modified with undeliverableHere = true
\* and nothing else is done for it: it is not accepted, no interceptor and
\* no handler is invoked, no sender is created and nothing is sent.
C20_MissingBodyModified ==
  (message.body.kind = "none" /\ spc # "idle") =>
    /\ spc = "done"
    /\ events[Len(events)] = [e |-> "modify", undeliverableHere |-> TRUE]
    /\ Count("modify") = 1
    /\ \A i \in DOMAIN events : events[i].e \in {"log", "modify"}

\* a message without body was modified while the server has an interceptor
\* and a completion interceptor
C20_Witness ==
  /\ spc = "done"
  /\ message.body.kind = "none"
  /\ Has("modify")
  /\ options.interceptor /\ options.completionInterceptor
\* C21: in single mode accept is not called before the completion of the
\* message's handler has settled; in batch mode accept is called before the
\* handler of the first item is invoked.
C21_AcceptOrder ==
  /\ (message.body.kind = "request" /\ Has("handler")) =>
       \A i \in DOMAIN events :
         events[i].e = "accept" => \E j \in 1..(i - 1) : events[j].e = "settled"
  /\ message.body.kind = "batch" =>
       /\ \A i \in DOMAIN events :
            events[i].e = "handler" => \E j \in 1..(i - 1) : events[j].e = "accept"
       /\ (spc # "idle" /\ ~ReturnedFalse("interceptor")) => Has("accept")

\* a batch was accepted and the handler of its first item has not settled
C21_Witness ==
  /\ message.body.kind = "batch"
  /\ spc = "item"
  /\ Count("handler") = 1
  /\ Has("accept")
  /\ ~Has("settled")

\* C22: when the global interceptor returns false the server does nothing
\* more for the message (no disposition, no handler, no sender, no reply);
\* when it returns anything else the pipeline goes on.
C22_GlobalInterceptorFalse ==
  /\ ReturnedFalse("interceptor") =>
       /\ spc = "done"
       /\ events = <<Called("interceptor", FALSE)>>
  /\ (\E i \in DOMAIN events : events[i] = Called("interceptor", TRUE)) =>
       (spc # "done" \/ Len(events) > 1)

\* the global interceptor returned false for a request that carries both
\* routing properties
C22_Witness ==
  /\ ReturnedFalse("interceptor")
  /\ message.body.kind = "request"
  /\ message.body.request = Request("testMethod")
  /\ Routed

\* C23 (as stated): when the per-method interceptor returns false the
\* handler is not invoked, the message is not settled and no reply is sent.
C23_MethodInterceptorFalse ==
  ReturnedFalse("methodInterceptor") =>
    /\ ~Has("handler")
    /\ ~Has("accept")
    /\ ~Has("createSender")
    /\ ~Has("send")

\* C24 (as stated): for a batch neither the global interceptor nor a
\* per-method interceptor is invoked.
C24_NoInterceptorInBatch ==
  message.body.kind = "batch" =>
    /\ ~Has("interceptor")
    /\ ~Has("methodInterceptor")

\* C25 (as stated): in single mode, once the handler has completed and the
\* dispatch is over the message has been accepted, whatever the completion
\* interceptor returned.
C25_AcceptedDespiteCompletionInterceptor ==
  (message.body.kind = "request" /\ spc = "done" /\ Has("settled")) => Has("accept")

\* C26: a single request naming an unregistered method gives, with
\* ignoreUnknownMethods on, no sender, no reply and no logger.error call;
\* with ignoreUnknownMethods off (both routing properties present, no
\* interceptor returning false) it gives one reply whose error.code is
\* -32601.
C26_UnknownMethodPolicy ==
  (/\ message.body.kind = "request"
   /\ message.body.request.hasMethod
   /\ message.body.request.method \notin DOMAIN methodHandlers
   /\ spc = "done") =>
    IF options.ignoreUnknownMethods
      THEN ~Has("createSender") /\ ~Has("send") /\ ~Has("log")
      ELSE (/\ Routed
            /\ ~ReturnedFalse("interceptor")
            /\ ~ReturnedFalse("completionInterceptor")) =>
             /\ Cardinality(Sent) = 1
             /\ \A response \in Sent :
                  response.body.kind = "error" /\ response.body.error.code = -32601

\* the error of a request for an unregistered method was formatted and
\* dropped by a server with ignoreUnknownMethods
C26_Witness ==
  /\ spc = "done"
  /\ options.ignoreUnknownMethods
  /\ message.body.kind = "request"
  /\ message.body.request = Request("nope")
  /\ Routed
  /\ Has("formatError")
  /\ ~Has("send")

\* C29: a single request whose params the method's validator refuses
\* invokes neither the handler nor the per-method interceptor, and its
\* response is the error with code -32602 whose data has the validator's
\* errors in messages and { replyTo, request } in source; with both routing
\* properties and no interceptor returning false that response is sent.
C29_InvalidParamsRejected ==
  (/\ message.body.kind = "request"
   /\ message.body.request.hasMethod
   /\ message.body.request.method \in DOMAIN methodHandlers
   /\ methodHandlers[message.body.request.method].validate
   /\ message.body.request.params = "invalid") =>
    /\ ~Has("handler")
    /\ ~Has("methodInterceptor")
    /\ \A response \in Sent :
         response.body =
           [kind |-> "error",
            error |-> [code |-> -32602,
                       message |-> "Validation Error",
                       hasData |-> TRUE,
                       data |-> [t |-> "validation",
                                 source |-> [t |-> "source",
                                             replyTo |-> message.replyTo,
                                             request |-> message.body.request],
                                 messages |-> "validate.errors"]]]
    /\ (/\ spc = "done"
        /\ Routed
        /\ ~ReturnedFalse("interceptor")
        /\ ~ReturnedFalse("completionInterceptor")) => Cardinality(Sent) = 1

\* the error response of a request with invalid params was sent
C29_Witness ==
  /\ spc = "done"
  /\ message.body.kind = "request"
  /\ message.body.request = InvalidRequestParams("validated")
  /\ Has("formatError")
  /\ Sent # {}
\* C27: for a handler declaring (p1..pn), a request supplying the sequence
\* [v1..vn] and a request supplying the mapping {p1: v1, .., pn: vn} both
\* apply the handler to (v1..vn).
C27_SameArguments ==
  /\ (supplied.kind = "array" /\ Len(supplied.values) = Len(parameters)) =>
       args = supplied.values
  /\ (supplied.kind = "mapping"
        /\ DOMAIN supplied.map = {parameters[i] : i \in DOMAIN parameters}) =>
       args = [i \in DOMAIN parameters |-> supplied.map[parameters[i]]]

\* a handler whose parameters are not declared in the order of their names
\* was applied to different values supplied as a mapping
C27_Witness ==
  /\ supplied.kind = "mapping"
  /\ Len(parameters) >= 2
  /\ parameters[1] = "p2" /\ parameters[2] = "p1"
  /\ DOMAIN supplied.map = {parameters[i] : i \in DOMAIN parameters}
  /\ args[1] = "v1" /\ args[2] = "v2"

\* C28 (as stated): when a sequence of m values is supplied to a handler
\* declaring n > m parameters, every parameter at a 0-based index >= m is
\* null in the params given to the validator and in the arguments.
C28_MissingBecomeNull ==
  (supplied.kind = "array" /\ Len(supplied.values) < Len(parameters)) =>
    \A i \in (Len(supplied.values) + 1)..Len(parameters) :
      named[parameters[i]] = Null /\ args[i] = Null

\* C30: bind with a definition that has a method name and a params schema
\* naming a property that is no parameter of the handler raises
\* InvalidValidationDefinition and leaves the registry as it was; a name
\* that was not bound stays unbound and _processRequest answers a request
\* for it with MethodNotFound.
C30_UnknownParameterRefused ==
  [][\A call \in BindCalls :
       (Bind(call) /\ call.form = "definition" /\ call.hasMethod
          /\ call.params = "unknownParameter") =>
         /\ raised' = "InvalidValidationDefinitionError"
         /\ methodHandlers' = methodHandlers
         /\ call.name \notin DOMAIN methodHandlers =>
              /\ call.name \notin DOMAIN methodHandlers'
              /\ processRequest("rpc.response", Request(call.name))'.throws
              /\ processRequest("rpc.response", Request(call.name))'.error.code = -32601]_vars

\* a definition naming an unknown parameter was refused and nothing is
\* registered
C30_Witness ==
  /\ raised = "InvalidValidationDefinitionError"
  /\ detail = "unknown parameter"
  /\ methodHandlers = <<>>
\* C31: call(methodName, singleValue) sends the single value as params when
\* it is a plain mapping, and as the one-element list [singleValue] for every
\* other value (0, false, the empty string and null included).
C31_SingleValueParams ==
  (/\ envelope.sent
   /\ envelope.api = "call"
   /\ ~IsRawRequest(envelope.method)
   /\ Len(envelope.arguments) = 1
   /\ envelope.arguments[1] # JsUndefined) =>
     LET singleValue == envelope.arguments[1] IN
       envelope.request.body.params =
         IF singleValue.t = "mapping"
           THEN [kind |-> "mapping", value |-> singleValue]
           ELSE [kind |-> "array", values |-> <<singleValue>>]

\* the overrides given to notify with a raw request set properties.replyTo
ReplyToSet(method, arguments) ==
  /\ IsRawRequest(method)
  /\ "properties" \in Notification(arguments).keys
  /\ Notification(arguments).replyTo # Undefined

\* C34: notify with a raw request (or batch) and overrides whose
\* properties.replyTo is set raises BadRequest and sends nothing; every other
\* notify sends a message without replyTo and without correlationId and
\* touches neither the pending table nor the timers.
C34_NotifyWithoutReplyTo ==
  [][\A method \in MethodArguments, arguments \in ArgumentLists :
       Notify(method, arguments) =>
         /\ UNCHANGED <<requests, timers>>
         /\ IF ReplyToSet(method, arguments)
              THEN refused' = "BadRequestError" /\ ~envelope'.sent
              ELSE /\ envelope'.sent
                   /\ envelope'.request.properties.own = {}]_vars

\* C32: a response whose body is an array resolves the pending call (never
\* rejects it) with a list of the same length and order, item k being item
\* k's result if present, else its error if present, else undefined; the
\* pending entry is removed.
C32_BatchResponseResolves ==
  \A k \in Calls :
    (completion[k].via.src = "message" /\ completion[k].via.m.body.kind = "batch") =>
       LET items == completion[k].via.m.body.items IN
         /\ completion[k].kind = "resolved"
         /\ completion[k].count = 1
         /\ Len(completion[k].value.items) = Len(items)
         /\ \A i \in DOMAIN items :
              completion[k].value.items[i] =
                IF "result" \in items[i].own THEN [t |-> "value", v |-> items[i].result]
                ELSE IF "error" \in items[i].own THEN [t |-> "error", v |-> items[i].error]
                ELSE [t |-> "undefined"]
         /\ corr[k] \notin DOMAIN requests

\* a call was resolved with the list [error, result] of a batch response
C32_Witness ==
  \E k \in Calls :
    /\ completion[k].kind = "resolved"
    /\ completion[k].via.src = "message"
    /\ completion[k].value = [t |-> "list",
                              items |-> <<[t |-> "error", v |-> "e1"],
                                          [t |-> "value", v |-> "v1"]>>]
    /\ corr[k] \notin DOMAIN requests

\* C33: a response { error: { code, message, data } } rejects the pending
\* call with an error whose code, message and data equal the wire values, of
\* the subtype matching the code for the five protocol codes and of the base
\* ProtocolError type for any other code.
C33_ErrorReconstructed ==
  \A k \in Calls :
    (completion[k].via.src = "message" /\ completion[k].via.m.body.kind = "error") =>
       LET error == completion[k].via.m.body IN
         /\ completion[k].kind = "rejected"
         /\ completion[k].value.code = ToString(error.code)
         /\ completion[k].value.message = error.message
         /\ completion[k].value.data = error.data
         /\ completion[k].value.type =
              IF error.code = ParseError THEN "ParseError"
              ELSE IF error.code = InvalidRequest THEN "InvalidRequestError"
              ELSE IF error.code = MethodNotFound THEN "MethodNotFoundError"
              ELSE IF error.code = InvalidParams THEN "InvalidParamsError"
              ELSE IF error.code = InternalError THEN "InternalError"
              ELSE "ProtocolError"

C36_TimeoutZeroDisables ==
  (copts.timeout.set /\ copts.timeout.ms = 0) =>
     \A k \in Calls : completion[k].value # RequestTimeoutError

\* C37: on every path of the dispatch the server applies at most one
\* disposition to the message: accept is never called twice and never
\* combined with modify.
C37_AtMostOneDisposition == Count("accept") + Count("modify") <= 1

\* C39: with ignoreUnknownMethods on, a reply is suppressed only when the
\* request named an unregistered method: every other single request with
\* both routing properties and no interceptor returning false gets its reply,
\* a registered handler that fails with code -32601 included.
C39_OnlyUnregisteredSuppressed ==
  (/\ options.ignoreUnknownMethods
   /\ message.body.kind = "request"
   /\ ~(/\ message.body.request.hasMethod
        /\ message.body.request.method \notin DOMAIN methodHandlers)
   /\ spc = "done"
   /\ Routed
   /\ ~ReturnedFalse("interceptor")
   /\ ~ReturnedFalse("completionInterceptor")) =>
     Cardinality(Sent) = 1

\* C38: a response delivered before the completion callback of the call's
\* send has run (so before the pending entry is installed) is not lost: the
\* call is not rejected with RequestTimeout afterwards.
C38_EarlyResponseNotLost ==
  [][\A k \in Calls :
       (/\ TimerFires(k)
        /\ corr[k] \in DOMAIN requests
        /\ log = InvalidCorrelation(corr[k])) =>
          completion'[k].value # RequestTimeoutError]_vars

\* a step leaves alone the entries, completions and timers of the calls
\* whose correlator is not c
Untouched(c) ==
  /\ \A d \in DOMAIN requests \ {c} :
       d \in DOMAIN requests' /\ requests'[d] = requests[d]
  /\ \A j \in Calls :
       corr[j] # c =>
         /\ completion'[j] = completion[j]
         /\ j \in timers <=> j \in timers'

\* C40: handling a response, or a deadline expiry, for correlator c leaves
\* every other pending entry, its completion and its armed timer unchanged.
C40_OtherCallsUntouched ==
  [][/\ \A m \in Messages : ProcessMessage(m) => Untouched(m.correlationId)
     /\ \A k \in Calls : TimerFires(k) => Untouched(corr[k])]_vars

\* one call was settled by its response while the other is still pending
\* with its entry and its timer
C40_Witness ==
  \E k, j \in Calls :
    /\ k # j
    /\ completion[k].via.src = "message"
    /\ completion[j] = Pending
    /\ corr[j] \in DOMAIN requests
    /\ j \in timers

====
